---- MODULE Spec2Model ----
(***************************************************************************)
(* Model of the report generation job of reports/tasks.py                  *)
(* (generate_marketing_report), the Report record of reports/models.py     *)
(* and the Celery retry envelope around the job.                           *)
(*                                                                         *)
(* One job (one report id) is followed from its submission to its final    *)
(* outcome.  The environment is nondeterministic: every stage collaborator *)
(* either returns a payload or raises, every database operation either     *)
(* succeeds or raises, the channel layer is absent, up or down during an   *)
(* attempt, and the broker accepts or refuses the completion e-mail task.  *)
(* The number of faults the environment injects into one job is bounded:   *)
(* stage_budget and db_budget count what is left.                          *)
(* Strings built with f-strings are modelled as sequences of their parts.  *)
(*                                                                         *)
(* Spec follows the first execution of the task, with every subset of      *)
(* failing stages.  JobSpec follows the job through all its retries, with  *)
(* at most MaxStageFaults failing stage calls in the job.                  *)
(* MonitorSpec puts one worker next to concurrent invocations of           *)
(* monitor_report_processing while time passes.  FleetSpec puts two        *)
(* workers next to the tasks that submit the report again (the monitor's   *)
(* restart of old pending reports, batch_process_reports and               *)
(* regenerate_failed_reports).  SaveSpec applies Report.save to instances  *)
(* drawn from bounded sets.  ChannelSpec follows the WebSocket consumers of *)
(* reports/consumers.py and the messages published to their groups.        *)
(* LiveSpec is the job with a fair worker, a periodic monitor and passing  *)
(* time.  DeleteSpec puts one worker next to ReportDeleteView.destroy and  *)
(* cleanup_old_reports.  Every save writes all fields of the instance that *)
(* is saved, as Model.save does without update_fields, and inserts the row *)
(* when it is gone.                                                        *)
(***************************************************************************)
EXTENDS Integers, Sequences, FiniteSets, TLC

VARIABLES
    db,              \* the stored Report row of the job's id (or NoRecord)
    website,         \* the stored Website row the report points to
    pc,              \* position of the job in generate_marketing_report
    report,          \* the task's in-memory Report instance
    collected_data,  \* the task's collected_data dict
    retries,         \* self.request.retries of the current attempt
    delays,          \* countdowns handed to self.retry so far
    now,             \* the clock read by timezone.now()
    channel,         \* get_channel_layer(): "none", or a layer "up"/"down"
    invoked,         \* stage collaborators called in the current attempt
    events,          \* events published in the current attempt
    notifications,   \* send_report_notification tasks enqueued
    exc,             \* the job-level exception being handled
    bookkept,        \* the failure handler persisted its bookkeeping
    stage_budget,    \* stage failures the environment may still cause
    db_budget,       \* database faults the environment may still cause
    queue,           \* generate_marketing_report messages waiting in the broker
    parked,          \* the execution a second worker is in the middle of
    monitor,         \* the running monitor_report_processing invocations
    regen,           \* the running regenerate_failed_reports invocation
    batches,         \* batch_process_reports calls naming the report so far
    groups,          \* the channel layer's groups: the channels in each
    conns,           \* the WebSocket connections and their consumers
    sent,            \* the messages handed to group_send so far
    delivered,       \* the frames each connection's consumer has sent
    destroy,         \* the running ReportDeleteView.destroy request
    cleanup          \* the running cleanup_old_reports invocation

\* What lives outside one execution of generate_marketing_report.
\* The WebSocket side and the requests and tasks that delete the record.
peers == <<groups, conns, sent, delivered, destroy, cleanup>>

env == <<queue, parked, monitor, regen, batches, peers>>

vars == <<db, website, pc, report, collected_data, retries, delays, now,
          channel, invoked, events, notifications, exc, bookkept,
          stage_budget, db_budget, queue, parked, monitor, regen, batches,
          groups, conns, sent, delivered, destroy, cleanup>>

-----------------------------------------------------------------------------
(* Values *)

None == <<>>
Some(v) == <<v>>

NoRecord == [exists |-> FALSE]

Empty == [kind |-> "empty"]

NoExc == <<>>

DbError == <<"database unavailable">>

ChannelError == <<"channel layer unavailable">>

BrokerError == <<"broker unavailable">>

StageErrors == {<<"collaborator error">>}

max_retries == 3

NumStages == 7

\* Bounds of the model.
MaxStageFaults == 1

MaxDbFaults == 2

\* The latest clock reading of SaveSpec.
MaxTime == 2

\* The clock of MonitorSpec advances MaxTicks times by TickSeconds.
MaxTicks == 2

TickSeconds == 1801

\* monitor_report_processing: timedelta(minutes=30) and timedelta(hours=1).
StuckSeconds == 1800

PendingSeconds == 3600

TimeoutError == <<"Report processing timed out after 30 minutes">>

RetryBase == 60

StageNames == <<"website_analysis", "seo_analysis", "social_analysis",
                "reputation_analysis", "competitor_analysis", "ai_analysis",
                "report_compilation">>

\* The requests a record can have been created from (ReportCreateSerializer).
Requests ==
    { [url |-> "https://a.example", domain |-> "a.example", has_ssl |-> TRUE,
       requester_email |-> "owner@a.example"],
      [url |-> "http://b.example", domain |-> "b.example", has_ssl |-> FALSE,
       requester_email |-> ""] }

\* A Report row as created by Report.objects.create: the field defaults.
NewReport(req) ==
    [exists |-> TRUE,
     status |-> "pending",
     created_at |-> 0,
     requester_email |-> req.requester_email,
     executive_summary |-> Empty,
     seo_data |-> Empty,
     social_data |-> Empty,
     reputation_data |-> Empty,
     competitor_data |-> Empty,
     trust_score |-> Empty,
     growth_opportunities |-> Empty,
     technical_analysis |-> Empty,
     completed_at |-> None,
     processing_started_at |-> None,
     processing_steps |-> <<>>,
     error_messages |-> <<>>,
     processing_time_seconds |-> None]

NewWebsite(req) ==
    [url |-> req.url, domain |-> req.domain, has_ssl |-> req.has_ssl,
     company_name |-> ""]

\* A worker that is executing nothing.
IdleExecution ==
    [pc |-> "idle", report |-> NoRecord, collected_data |-> <<>>, retries |-> 0,
     delays |-> <<>>, invoked |-> <<>>, events |-> <<>>, exc |-> NoExc,
     bookkept |-> FALSE]

\* Concurrent invocations of monitor_report_processing the model follows.
NumMonitors == 2

Monitors == 1..NumMonitors

\* An invocation of a maintenance task that has not started: copy is the
\* Report instance its query returned, once it has run the query.
NotStarted == [pc |-> "idle", copy |-> NoRecord]

\* The report ids the model tells apart: the id of the job's record and one
\* other.
ReportIds == {"r1", "r2"}

\* The WebSocket connections the model follows.
Connections == {"a", "b"}

\* f'report_{report_id}', and the literal 'report_list'.
ReportGroup(id) == <<"report_", id>>

ReportListGroup == <<"report_", "list">>

\* The report_id a URL of routing.py can carry: any text without a slash.
RouteIds == ReportIds \cup {"list"}

GroupNames == {ReportGroup(id) : id \in RouteIds}

\* A connection that has not been opened yet.
Unopened == [state |-> "new", consumer |-> "none", group |-> <<>>,
             joined |-> 0, queried |-> FALSE]

\* Nothing is connected, nothing has been published, and no request or task
\* that deletes the record is running.
InitPeers ==
    /\ groups = [g \in GroupNames |-> {}]
    /\ conns = [c \in Connections |-> Unopened]
    /\ sent = <<>>
    /\ delivered = [c \in Connections |-> <<>>]
    /\ destroy = NotStarted
    /\ cleanup = NotStarted

-----------------------------------------------------------------------------
(* Report.save and Report.progress_percentage *)

SaveFields_ComputesOnce(r, t) ==
    LET r1 == IF r.status = "completed" /\ r.completed_at = None
              THEN [r EXCEPT !.completed_at = Some(t)]
              ELSE r
    IN  IF /\ r1.completed_at # None
           /\ r1.processing_started_at # None
           /\ r1.processing_time_seconds = None
        THEN [r1 EXCEPT !.processing_time_seconds =
                  Some(r1.completed_at[1] - r1.processing_started_at[1])]
        ELSE r1

\* The field updates Report.save makes before it writes the row.
SaveFields(r, t) ==
    LET r1 == IF r.status = "completed" /\ r.completed_at = None
              THEN [r EXCEPT !.completed_at = Some(t)]
              ELSE r
    IN  IF r1.completed_at # None /\ r1.processing_started_at # None
        THEN [r1 EXCEPT !.processing_time_seconds =
                  Some(r1.completed_at[1] - r1.processing_started_at[1])]
        ELSE r1

CompletedSteps(steps) ==
    Cardinality({i \in 1..Len(steps) : steps[i].status = "completed"})

progress_percentage(r) ==
    IF r.processing_steps = <<>>
    THEN 0
    ELSE (CompletedSteps(r.processing_steps) * 100) \div Len(r.processing_steps)

-----------------------------------------------------------------------------
(* Helpers of the task *)

Put_DropsFallback(m, k, v) ==
    IF v.kind = "fallback"
    THEN m
    ELSE [x \in (DOMAIN m) \cup {k} |-> IF x = k THEN v ELSE m[x]]

\* collected_data[k] = v
Put(m, k, v) == [x \in (DOMAIN m) \cup {k} |-> IF x = k THEN v ELSE m[x]]

\* channel_layer.group_send inside send_progress / send_status_update:
\* skipped without a layer, and a failure is logged and swallowed.
GuardedSend(evs, ev) == IF channel = "up" THEN Append(evs, ev) ELSE evs

ProgressEvent(step, status, progress) ==
    [topic |-> "report", type |-> "report_progress_update", step |-> step,
     status |-> status, progress |-> progress]

send_progress_Prepends(evs, step, status, progress) ==
    IF channel = "up" THEN <<ProgressEvent(step, status, progress)>> \o evs ELSE evs

send_progress(evs, step, status, progress) ==
    GuardedSend(evs, ProgressEvent(step, status, progress))

send_status_update(evs, status) ==
    GuardedSend(evs, [topic |-> "report", type |-> "report_status_update",
                      status |-> status])

UpdateSteps_KeepsProgress(steps, step_name, status, progress, message, t) ==
    [i \in 1..Len(steps) |->
        IF steps[i].step = step_name
        THEN [step |-> step_name, status |-> status,
              progress |-> steps[i].progress, message |-> message, updated_at |-> t]
        ELSE steps[i]]

\* The loop of update_processing_step: the first entry named step_name.
UpdateSteps(steps, step_name, status, progress, message, t) ==
    [i \in 1..Len(steps) |->
        IF /\ steps[i].step = step_name
           /\ \A j \in 1..(i - 1) : steps[j].step # step_name
        THEN [step |-> step_name, status |-> status, progress |-> progress,
              message |-> message, updated_at |-> t]
        ELSE steps[i]]

\* update_processing_step up to its save: the in-memory instance afterwards.
StepUpdated(r, step_name, status, progress, message, t) ==
    SaveFields([r EXCEPT !.processing_steps =
                    UpdateSteps(@, step_name, status, progress, message, t)], t)

InitialSteps ==
    << [step |-> "website_analysis", status |-> "pending", progress |-> 0,
        message |-> <<"Analyzing website structure and content...">>],
       [step |-> "seo_analysis", status |-> "pending", progress |-> 0,
        message |-> <<"Collecting SEO performance data...">>],
       [step |-> "social_analysis", status |-> "pending", progress |-> 0,
        message |-> <<"Analyzing social media presence...">>],
       [step |-> "reputation_analysis", status |-> "pending", progress |-> 0,
        message |-> <<"Checking online reputation and reviews...">>],
       [step |-> "competitor_analysis", status |-> "pending", progress |-> 0,
        message |-> <<"Analyzing competitive landscape...">>],
       [step |-> "ai_analysis", status |-> "pending", progress |-> 0,
        message |-> <<"Running AI-powered analysis...">>],
       [step |-> "report_compilation", status |-> "pending", progress |-> 0,
        message |-> <<"Compiling final report and recommendations...">>] >>

-----------------------------------------------------------------------------
(* Initial state: the job has been submitted for an id whose record exists *)
(* (status pending) or does not exist.                                     *)

InitWith(stage_faults) ==
    /\ stage_budget = stage_faults
    /\ db_budget = MaxDbFaults
    /\ \E req \in Requests :
          /\ website = NewWebsite(req)
          /\ db \in {NewReport(req), NoRecord}
    /\ pc = "queued"
    /\ report = NoRecord
    /\ collected_data = <<>>
    /\ retries = 0
    /\ delays = <<>>
    /\ now = 0
    /\ channel \in {"none", "up", "down"}
    /\ invoked = <<>>
    /\ events = <<>>
    /\ notifications = 0
    /\ exc = NoExc
    /\ bookkept = FALSE
    /\ queue = 0
    /\ parked = IdleExecution
    /\ monitor = [i \in Monitors |-> NotStarted]
    /\ regen = NotStarted
    /\ batches = 0
    /\ InitPeers

\* The first execution: every stage of it may fail.
Init == InitWith(NumStages)

\* The whole job.
InitJob == InitWith(MaxStageFaults)

\* The outcomes of a database write the environment can still choose.
SaveOutcomes == IF db_budget > 0 THEN BOOLEAN ELSE {TRUE}

DbFault(ok) == db_budget' = IF ok THEN db_budget ELSE db_budget - 1

\* The stage errors the environment can still choose.
StageFaults == IF stage_budget > 0 THEN StageErrors ELSE {}

\* An exception escapes to the task's "except Exception" handler.
Raise(e) ==
    /\ exc' = e
    /\ pc' = "handler"

-----------------------------------------------------------------------------
(* generate_marketing_report: start *)

LoadReport_Creates ==
    /\ pc = "queued"
    /\ \/ /\ db.exists
          /\ report' = db
          /\ pc' = "loaded"
          /\ UNCHANGED <<db, exc, db_budget>>
       \/ /\ ~db.exists
          /\ db' = NewReport(CHOOSE req \in Requests : req.domain = website.domain)
          /\ pc' = "not_found"
          /\ UNCHANGED <<report, exc, db_budget>>
       \/ /\ db_budget > 0
          /\ db_budget' = db_budget - 1
          /\ UNCHANGED <<db, report>>
          /\ Raise(DbError)
    /\ UNCHANGED env
    /\ UNCHANGED <<website, collected_data, retries, delays, now, channel,
                   invoked, events, notifications, bookkept, stage_budget>>

\* Report.objects.get(id=report_id), lines 93-97.
LoadReport ==
    /\ pc = "queued"
    /\ \/ /\ db.exists
          /\ report' = db
          /\ pc' = "loaded"
          /\ UNCHANGED <<exc, db_budget>>
       \/ /\ ~db.exists
          /\ pc' = "not_found"
          /\ UNCHANGED <<report, exc, db_budget>>
       \/ /\ db_budget > 0
          /\ db_budget' = db_budget - 1
          /\ report' = report
          /\ Raise(DbError)
    /\ UNCHANGED env
    /\ UNCHANGED <<db, website, collected_data, retries, delays, now, channel,
                   invoked, events, notifications, bookkept, stage_budget>>

StartFields_KeepsErrors(r, t) ==
    [r EXCEPT !.status = "processing", !.processing_started_at = Some(t)]

\* Lines 100-102: the fields set when processing starts.
StartFields(r, t) ==
    [r EXCEPT !.status = "processing",
              !.processing_started_at = Some(t),
              !.error_messages = <<>>]

\* Lines 99-105: status, processing_started_at, error_messages, save, event.
StartProcessing ==
    /\ pc = "loaded"
    /\ LET r == SaveFields(StartFields(report, now), now)
       IN  /\ report' = r
           /\ \E ok \in SaveOutcomes :
                 /\ DbFault(ok)
                 /\ IF ok
                    THEN /\ db' = r
                         /\ events' = send_status_update(events, "processing")
                         /\ pc' = "init_steps"
                         /\ exc' = exc
                    ELSE /\ db' = db
                         /\ events' = events
                         /\ Raise(DbError)
    /\ UNCHANGED env
    /\ UNCHANGED <<website, collected_data, retries, delays, now, channel,
                   invoked, notifications, bookkept, stage_budget>>

\* Lines 108-129: processing_steps, save, collected_data = {}.
InitSteps ==
    /\ pc = "init_steps"
    /\ LET r == SaveFields([report EXCEPT !.processing_steps = InitialSteps], now)
       IN  /\ report' = r
           /\ \E ok \in SaveOutcomes :
                 /\ DbFault(ok)
                 /\ IF ok
                    THEN /\ db' = r
                         /\ collected_data' = <<>>
                         /\ pc' = "website_analysis"
                         /\ exc' = exc
                    ELSE /\ db' = db
                         /\ collected_data' = collected_data
                         /\ Raise(DbError)
    /\ UNCHANGED env
    /\ UNCHANGED <<website, retries, delays, now, channel, invoked, events,
                   notifications, bookkept, stage_budget>>

-----------------------------------------------------------------------------
(* Stage payloads: what the collaborators return and the fallback data *)

\* WebsiteAnalyzer.analyze_website returns a result dict, with or without a
\* company name, or a dict holding an 'error' key.
WebsiteResults ==
    { [kind |-> "real", source |-> "WebsiteAnalyzer", company_name |-> ""],
      [kind |-> "real", source |-> "WebsiteAnalyzer", company_name |-> "Acme"] }
    \cup { [kind |-> "error_result", source |-> "WebsiteAnalyzer", error |-> e] :
             e \in StageErrors }

RealPayload(source) == [kind |-> "real", source |-> source]

WebsiteFallback(w, e) ==
    [kind |-> "fallback", url |-> w.url, domain |-> w.domain, error |-> e,
     has_ssl |-> w.has_ssl, title |-> <<"Analysis for ", w.domain>>,
     word_count |-> 0]

SeoFallback(w, e) ==
    [kind |-> "fallback", url |-> w.url, error |-> e,
     page_speed |-> [performance_score |-> 0, seo_score |-> 0],
     mobile_friendly |-> [mobile_friendly |-> FALSE]]

SocialFallback_NoError(w, e) ==
    [kind |-> "fallback", domain |-> w.domain, platforms |-> <<>>]

SocialFallback(w, e) ==
    [kind |-> "fallback", domain |-> w.domain, error |-> e, platforms |-> <<>>]

ReputationFallback(w, e) ==
    [kind |-> "fallback", domain |-> w.domain, error |-> e,
     overall_rating |-> 0, reviews |-> <<>>]

CompetitorFallback(w, e) ==
    [kind |-> "fallback", domain |-> w.domain, error |-> e,
     competitors |-> <<>>, market_position |-> <<>>]

TrustFallback(e) ==
    [kind |-> "fallback", overall |-> "5.0", breakdown |-> <<>>, error |-> e]

GrowthFallback == [kind |-> "fallback", items |-> <<>>]

\* collected_data.get('trust_score', {}).get('overall', 5.0)
Overall(cd) ==
    IF "trust_score" \in DOMAIN cd
    THEN IF cd["trust_score"].kind = "fallback" THEN "5.0" ELSE "overall"
    ELSE "5.0"

SummaryFallback(w, cd, e) ==
    [kind |-> "fallback",
     summary_text |-> <<"Report generated for ", w.domain, " with basic analysis.">>,
     organic_traffic_change |-> "+0%", ai_visibility |-> Overall(cd),
     avg_rating |-> 0, error |-> e]

-----------------------------------------------------------------------------
(* The stages *)

\* update_processing_step: the step entry is changed in memory, then saved;
\* a failing save is logged and swallowed.
update_processing_step(r, step_name, status, progress, message, saved) ==
    LET u == StepUpdated(r, step_name, status, progress, message, now)
    IN  [report |-> u, db |-> IF saved THEN u ELSE db]

\* Step 1, lines 131-168.  A result holding 'error' is raised as an
\* exception; a company name found for a website that has none is saved to
\* the Website row, and a failure of that save fails the stage too.
WebsiteAnalysis ==
    /\ pc = "website_analysis"
    /\ invoked' = Append(invoked, "website_analysis")
    /\ \E saved \in SaveOutcomes :
       LET started == send_progress(events, "website_analysis", "in_progress", 10)
           fail(e) ==
              LET u == update_processing_step(report, "website_analysis", "failed", 0,
                                              <<"Website analysis failed: ">> \o e, saved)
              IN  /\ report' = u.report
                  /\ db' = u.db
                  /\ events' = send_progress(started, "website_analysis", "failed", 0)
                  /\ collected_data' =
                        Put(collected_data, "website_data", WebsiteFallback(website, e))
                  /\ website' = website
           succeed(data) ==
              LET u == update_processing_step(report, "website_analysis", "completed", 100,
                                              <<"Website analysis completed successfully">>,
                                              saved)
              IN  /\ report' = u.report
                  /\ db' = u.db
                  /\ events' = send_progress(started, "website_analysis", "completed", 100)
                  /\ collected_data' = Put(collected_data, "website_data", data)
       IN  \/ \E e \in StageFaults :
                 /\ fail(e)
                 /\ stage_budget' = stage_budget - 1
                 /\ DbFault(saved)
           \/ \E data \in WebsiteResults :
                 IF data.kind = "error_result"
                 THEN /\ stage_budget > 0
                      /\ fail(<<"Website analysis failed: ">> \o data.error)
                      /\ stage_budget' = stage_budget - 1
                      /\ DbFault(saved)
                 ELSE IF data.company_name # "" /\ website.company_name = ""
                 THEN \/ /\ website' = [website EXCEPT !.company_name = data.company_name]
                         /\ succeed(data)
                         /\ stage_budget' = stage_budget
                         /\ DbFault(saved)
                      \/ /\ db_budget > (IF saved THEN 0 ELSE 1)
                         /\ db_budget' = db_budget - (IF saved THEN 1 ELSE 2)
                         /\ fail(DbError)
                         /\ stage_budget' = stage_budget
                 ELSE /\ succeed(data)
                      /\ website' = website
                      /\ stage_budget' = stage_budget
                      /\ DbFault(saved)
    /\ pc' = "seo_analysis"
    /\ UNCHANGED env
    /\ UNCHANGED <<retries, delays, now, channel, notifications, exc, bookkept>>

\* Steps 2-5 share one shape: the collaborator's data goes to collected_data
\* and to the report field of the same name; on failure only collected_data
\* gets the fallback (fallback[e] is the fallback data for the error e).
DataStage(step_name, key, source, percent, prefix, done, fallback, next) ==
    /\ pc = step_name
    /\ invoked' = Append(invoked, step_name)
    /\ \E saved \in SaveOutcomes :
       LET started == send_progress(events, step_name, "in_progress", percent)
       IN  /\ DbFault(saved)
           /\ \/ \E e \in StageFaults :
                    LET u == update_processing_step(report, step_name, "failed", 0,
                                                    prefix \o e, saved)
                    IN  /\ report' = u.report
                        /\ db' = u.db
                        /\ events' = send_progress(started, step_name, "failed", 0)
                        /\ collected_data' = Put(collected_data, key, fallback[e])
                        /\ stage_budget' = stage_budget - 1
              \/ LET data == RealPayload(source)
                     u == update_processing_step([report EXCEPT ![key] = data],
                                                 step_name, "completed", 100, done, saved)
                 IN  /\ report' = u.report
                     /\ db' = u.db
                     /\ events' = send_progress(started, step_name, "completed", 100)
                     /\ collected_data' = Put(collected_data, key, data)
                     /\ stage_budget' = stage_budget
    /\ pc' = next
    /\ UNCHANGED env
    /\ UNCHANGED <<website, retries, delays, now, channel, notifications, exc,
                   bookkept>>

\* Step 2, lines 170-197.
SeoAnalysis ==
    DataStage("seo_analysis", "seo_data", "SEODataCollector", 30,
              <<"SEO analysis failed: ">>,
              <<"SEO analysis completed successfully">>,
              [e \in StageErrors |-> SeoFallback(website, e)], "social_analysis")

\* Step 3, lines 199-228.
SocialAnalysis ==
    DataStage("social_analysis", "social_data", "SocialDataCollector", 50,
              <<"Social media analysis failed: ">>,
              <<"Social media analysis completed">>,
              [e \in StageErrors |-> SocialFallback(website, e)], "reputation_analysis")

\* Step 4, lines 230-260.
ReputationAnalysis ==
    DataStage("reputation_analysis", "reputation_data", "ReputationCollector", 65,
              <<"Reputation analysis failed: ">>,
              <<"Reputation analysis completed">>,
              [e \in StageErrors |-> ReputationFallback(website, e)], "competitor_analysis")

\* Step 5, lines 262-298.
CompetitorAnalysis ==
    DataStage("competitor_analysis", "competitor_data", "CompetitorCollector", 75,
              <<"Competitor analysis failed: ">>,
              <<"Competitor analysis completed">>,
              [e \in StageErrors |-> CompetitorFallback(website, e)], "ai_analysis")

\* Step 6, lines 300-333: trust score, then growth recommendations.  The
\* except block saves the step before it assigns the fallbacks.
AiAnalysis ==
    /\ pc = "ai_analysis"
    /\ invoked' = Append(invoked, "ai_analysis")
    /\ \E saved \in SaveOutcomes :
       LET started == send_progress(events, "ai_analysis", "in_progress", 85)
           trust == RealPayload("TrustScoreCalculator")
           growth == RealPayload("GrowthAnalyzer")
           fail(rep, e) ==
              LET u == update_processing_step(rep, "ai_analysis", "failed", 0,
                                              <<"AI analysis failed: ">> \o e, saved)
              IN  /\ db' = u.db
                  /\ report' = [u.report EXCEPT !.trust_score = TrustFallback(e),
                                                !.growth_opportunities = GrowthFallback]
                  /\ events' = send_progress(started, "ai_analysis", "failed", 0)
                  /\ collected_data' =
                        Put(Put(collected_data, "trust_score", TrustFallback(e)),
                            "growth_opportunities", GrowthFallback)
                  /\ stage_budget' = stage_budget - 1
       IN  /\ DbFault(saved)
           /\ \/ \E e \in StageFaults : fail(report, e)
              \/ \E e \in StageFaults :
                    fail([report EXCEPT !.trust_score = trust], e)
              \/ LET u == update_processing_step(
                             [report EXCEPT !.trust_score = trust,
                                            !.growth_opportunities = growth],
                             "ai_analysis", "completed", 100,
                             <<"AI analysis completed">>, saved)
                 IN  /\ report' = u.report
                     /\ db' = u.db
                     /\ events' = send_progress(started, "ai_analysis", "completed", 100)
                     /\ collected_data' =
                           Put(Put(collected_data, "trust_score", trust),
                               "growth_opportunities", growth)
                     /\ stage_budget' = stage_budget
    /\ pc' = "report_compilation"
    /\ UNCHANGED env
    /\ UNCHANGED <<website, retries, delays, now, channel, notifications, exc,
                   bookkept>>

\* Step 7, lines 335-375.  technical_analysis is kept as a marker: its
\* content is derived from collected_data and read by nothing in the task.
ReportCompilation ==
    /\ pc = "report_compilation"
    /\ invoked' = Append(invoked, "report_compilation")
    /\ \E saved \in SaveOutcomes :
       LET started == send_progress(events, "report_compilation", "in_progress", 95)
       IN  /\ DbFault(saved)
           /\ \/ \E e \in StageFaults :
                    LET u == update_processing_step(report, "report_compilation",
                                "failed", 0, <<"Report compilation failed: ">> \o e, saved)
                    IN  /\ db' = u.db
                        /\ report' = [u.report EXCEPT !.executive_summary =
                                          SummaryFallback(website, collected_data, e)]
                        /\ events' = send_progress(started, "report_compilation", "failed", 0)
                        /\ stage_budget' = stage_budget - 1
              \/ LET u == update_processing_step(
                             [report EXCEPT
                                 !.executive_summary = RealPayload("SummaryGenerator"),
                                 !.technical_analysis = [kind |-> "analysis"]],
                             "report_compilation", "completed", 100,
                             <<"Report compilation completed">>, saved)
                 IN  /\ report' = u.report
                     /\ db' = u.db
                     /\ events' = send_progress(started, "report_compilation", "completed", 100)
                     /\ stage_budget' = stage_budget
    /\ pc' = "finalize"
    /\ UNCHANGED env
    /\ UNCHANGED <<website, collected_data, retries, delays, now, channel,
                   notifications, exc, bookkept>>

-----------------------------------------------------------------------------
(* Completion *)

CompletedFields_FailsOnStageError(r, t) ==
    [r EXCEPT !.status = IF \E i \in 1..Len(r.processing_steps) :
                               r.processing_steps[i].status = "failed"
                         THEN "failed"
                         ELSE "completed",
              !.completed_at = Some(t)]

\* Lines 378-384: the fields set at the final completion.
CompletedFields(r, t) ==
    LET r0 == [r EXCEPT !.status = "completed", !.completed_at = Some(t)]
    IN  IF r0.processing_started_at # None
        THEN [r0 EXCEPT !.processing_time_seconds =
                  Some(t - r0.processing_started_at[1])]
        ELSE r0

\* Lines 377-386: status, completed_at, processing time, save.
Complete ==
    /\ pc = "finalize"
    /\ LET r == SaveFields(CompletedFields(report, now), now)
       IN  /\ report' = r
           /\ \E ok \in SaveOutcomes :
                 /\ DbFault(ok)
                 /\ IF ok
                    THEN /\ db' = r
                         /\ pc' = "notify"
                         /\ exc' = exc
                    ELSE /\ db' = db
                         /\ Raise(DbError)
    /\ UNCHANGED env
    /\ UNCHANGED <<website, collected_data, retries, delays, now, channel,
                   invoked, events, notifications, bookkept, stage_budget>>

\* Lines 388-409: the two unguarded group_send calls.
NotifyCompletion ==
    /\ pc = "notify"
    /\ \/ /\ channel = "none"
          /\ events' = events
          /\ pc' = "email"
          /\ exc' = exc
       \/ /\ channel = "up"
          /\ events' = events \o
                << [topic |-> "report", type |-> "report_completed"],
                   [topic |-> "report_list", type |-> "report_status_changed",
                    old_status |-> "processing", new_status |-> "completed"] >>
          /\ pc' = "email"
          /\ exc' = exc
       \/ /\ channel = "down"
          /\ events' = events
          /\ Raise(ChannelError)
    /\ UNCHANGED env
    /\ UNCHANGED <<db, website, report, collected_data, retries, delays, now,
                   channel, invoked, notifications, bookkept, stage_budget,
                   db_budget>>

\* Lines 413-423: the completion e-mail task and the return value.
SendNotificationAndReturn ==
    /\ pc = "email"
    /\ \/ /\ report.requester_email = ""
          /\ notifications' = notifications
          /\ pc' = "completed"
          /\ exc' = exc
       \/ /\ report.requester_email # ""
          /\ notifications' = notifications + 1
          /\ pc' = "completed"
          /\ exc' = exc
       \/ /\ report.requester_email # ""
          /\ notifications' = notifications
          /\ Raise(BrokerError)
    /\ UNCHANGED env
    /\ UNCHANGED <<db, website, report, collected_data, retries, delays, now,
                   channel, invoked, events, bookkept, stage_budget, db_budget>>

-----------------------------------------------------------------------------
(* Job-level failure handling and the retry envelope *)

FailedFields_NoAppend(r, e) == [r EXCEPT !.status = "failed"]

\* Lines 436-439: the fields set by the failure handler.
FailedFields(r, e) ==
    [r EXCEPT !.status = "failed", !.error_messages = Append(@, e)]

\* Lines 434-455: reload the record, mark it failed, append str(exc), save,
\* publish report_failed; any exception in here is logged and swallowed.
FailureBookkeeping ==
    /\ pc = "handler"
    /\ \/ /\ db.exists
          /\ LET r == SaveFields(FailedFields(db, exc), now)
             IN  /\ report' = r
                 /\ \E ok \in SaveOutcomes :
                       /\ DbFault(ok)
                       /\ bookkept' = ok
                       /\ db' = IF ok THEN r ELSE db
                       /\ events' = IF ok
                                    THEN GuardedSend(events,
                                           [topic |-> "report", type |-> "report_failed",
                                            error |-> exc])
                                    ELSE events
       \/ /\ ~db.exists \/ db_budget > 0
          /\ db_budget' = IF db.exists THEN db_budget - 1 ELSE db_budget
          /\ UNCHANGED <<db, report, events>>
          /\ bookkept' = FALSE
    /\ pc' = "retry_logic"
    /\ UNCHANGED env
    /\ UNCHANGED <<website, collected_data, retries, delays, now, channel,
                   invoked, notifications, exc, stage_budget>>

Countdown_Linear(r) == RetryBase * (r + 1)

\* Line 461.
Countdown(r) == RetryBase * (2 ^ r)

MayRetry_Inclusive(r) == r <= max_retries

\* Line 458.
MayRetry(r) == r < max_retries

\* Lines 457-464.
RetryLogic ==
    /\ pc = "retry_logic"
    /\ IF MayRetry(retries)
       THEN /\ delays' = Append(delays, Countdown(retries))
            /\ pc' = "retry_wait"
       ELSE /\ delays' = delays
            /\ pc' = "exhausted"
    /\ UNCHANGED env
    /\ UNCHANGED <<db, website, report, collected_data, retries, now, channel,
                   invoked, events, notifications, exc, bookkept, stage_budget,
                   db_budget>>

\* Celery runs the task again once the countdown has passed: a new
\* invocation with fresh locals and request.retries one higher.
RetryDeliver ==
    /\ pc = "retry_wait"
    /\ retries' = retries + 1
    /\ now' = now + delays[Len(delays)]
    /\ pc' = "queued"
    /\ report' = NoRecord
    /\ collected_data' = <<>>
    /\ invoked' = <<>>
    /\ events' = <<>>
    /\ exc' = NoExc
    /\ bookkept' = FALSE
    /\ channel' \in IF channel = "none" THEN {"none"} ELSE {"up", "down"}
    /\ UNCHANGED env
    /\ UNCHANGED <<db, website, delays, notifications, stage_budget, db_budget>>

\* One execution of the task.
Next ==
    \/ LoadReport
    \/ StartProcessing
    \/ InitSteps
    \/ WebsiteAnalysis
    \/ SeoAnalysis
    \/ SocialAnalysis
    \/ ReputationAnalysis
    \/ CompetitorAnalysis
    \/ AiAnalysis
    \/ ReportCompilation
    \/ Complete
    \/ NotifyCompletion
    \/ SendNotificationAndReturn
    \/ FailureBookkeeping
    \/ RetryLogic

Spec == Init /\ [][Next]_vars

\* The job: the executions of the task and the redeliveries between them.
JobNext == Next \/ RetryDeliver

JobSpec == InitJob /\ [][JobNext]_vars

-----------------------------------------------------------------------------
(* Time *)

\* timezone.now() reads a later time.
PassTime(d, limit) ==
    /\ now + d <= limit
    /\ now' = now + d
    /\ UNCHANGED env
    /\ UNCHANGED <<db, website, pc, report, collected_data, retries, delays,
                   channel, invoked, events, notifications, exc, bookkept,
                   stage_budget, db_budget>>

-----------------------------------------------------------------------------
(* The job runner and the maintenance tasks around the executions.         *)
(* MonitorSpec: a created report whose task message waits in the broker,   *)
(* one worker, and NumMonitors invocations of monitor_report_processing    *)
(* running while time passes.  An execution is followed to its return; the *)
(* retries of a failed execution are followed in JobSpec.                  *)

\* The record exists and its job has been submitted (ReportCreateView); the
\* clock reads t.
InitSysAt(t) ==
    /\ LET req == CHOOSE q \in Requests : q.requester_email # ""
       IN  /\ db = NewReport(req)
           /\ website = NewWebsite(req)
    /\ queue = 1
    /\ pc = "idle"
    /\ report = NoRecord
    /\ collected_data = <<>>
    /\ retries = 0
    /\ delays = <<>>
    /\ now = t
    /\ channel = "none"
    /\ invoked = <<>>
    /\ events = <<>>
    /\ notifications = 0
    /\ exc = NoExc
    /\ bookkept = FALSE
    /\ stage_budget = 0
    /\ db_budget = 0
    /\ parked = IdleExecution
    /\ monitor = [i \in Monitors |-> NotStarted]
    /\ regen = NotStarted
    /\ batches = 0
    /\ InitPeers

InitSys == InitSysAt(0)

\* The positions at which a worker is executing no task.
FreePcs == {"idle", "completed", "not_found", "exhausted"}

\* A worker takes a message of the task from the broker and starts a new
\* execution of generate_marketing_report.
Deliver ==
    /\ queue > 0
    /\ pc \in FreePcs
    /\ queue' = queue - 1
    /\ pc' = "queued"
    /\ report' = NoRecord
    /\ collected_data' = <<>>
    /\ retries' = 0
    /\ delays' = <<>>
    /\ invoked' = <<>>
    /\ events' = <<>>
    /\ exc' = NoExc
    /\ bookkept' = FALSE
    /\ UNCHANGED <<db, website, now, channel, notifications, stage_budget,
                   db_budget, parked, monitor, regen, batches>>
    /\ UNCHANGED peers

Tick == PassTime(TickSeconds, MaxTicks * TickSeconds)

\* The rows of the stuck query, lines 859-863.
IsStuck(r, t) ==
    /\ r.exists
    /\ r.status = "processing"
    /\ r.processing_started_at # None
    /\ r.processing_started_at[1] < t - StuckSeconds

\* The rows of the old pending query, lines 879-883.
IsOldPending(r, t) ==
    /\ r.exists
    /\ r.status = "pending"
    /\ r.created_at < t - PendingSeconds

\* Lines 859-866: the stuck query is evaluated when the loop starts; the
\* invocation holds the instance the query returned.
MonitorScan(i) ==
    /\ monitor[i].pc = "idle"
    /\ monitor' = [monitor EXCEPT ![i] =
                      IF IsStuck(db, now)
                      THEN [pc |-> "fail", copy |-> db]
                      ELSE [pc |-> "pending", copy |-> NoRecord]]
    /\ UNCHANGED <<db, website, pc, report, collected_data, retries, delays, now,
                   channel, invoked, events, notifications, exc, bookkept,
                   stage_budget, db_budget, queue, parked, regen, batches>>
    /\ UNCHANGED peers

MarkedStuck_StatusKept(r) == r

\* Lines 869-872: the fields the loop sets on the instance it holds.
MarkedStuck(r) ==
    [r EXCEPT !.status = "failed", !.error_messages = Append(@, TimeoutError)]

\* Lines 866-875: the instance is marked failed and saved: every field of
\* the row is written from the instance.  A database error ends the
\* invocation in its except block.
MonitorFail(i) ==
    /\ monitor[i].pc = "fail"
    /\ \E ok \in SaveOutcomes :
          /\ DbFault(ok)
          /\ IF ok
             THEN /\ db' = SaveFields(MarkedStuck(monitor[i].copy), now)
                  /\ monitor' = [monitor EXCEPT ![i] =
                                    [pc |-> "pending", copy |-> NoRecord]]
             ELSE /\ db' = db
                  /\ monitor' = [monitor EXCEPT ![i] =
                                    [pc |-> "done", copy |-> NoRecord]]
    /\ UNCHANGED <<website, pc, report, collected_data, retries, delays, now,
                   channel, invoked, events, notifications, exc, bookkept,
                   stage_budget, queue, parked, regen, batches>>
    /\ UNCHANGED peers

\* Lines 878-889: every record pending for more than an hour is submitted
\* to generate_marketing_report again.
MonitorRestart(i) ==
    /\ monitor[i].pc = "pending"
    /\ queue' = IF IsOldPending(db, now) THEN queue + 1 ELSE queue
    /\ monitor' = [monitor EXCEPT ![i] = [pc |-> "done", copy |-> NoRecord]]
    /\ UNCHANGED <<db, website, pc, report, collected_data, retries, delays, now,
                   channel, invoked, events, notifications, exc, bookkept,
                   stage_budget, db_budget, parked, regen, batches>>
    /\ UNCHANGED peers

MonitorNext ==
    \/ Next
    \/ Deliver
    \/ Tick
    \/ \E i \in Monitors : MonitorScan(i)
    \/ \E i \in Monitors : MonitorFail(i)
    \/ \E i \in Monitors : MonitorRestart(i)

MonitorSpec == InitSys /\ [][MonitorNext]_vars

-----------------------------------------------------------------------------
(* FleetSpec: two workers.  The report has been pending for more than an   *)
(* hour with its message still in the broker; one invocation of the       *)
(* monitor, a call of batch_process_reports naming the report and          *)
(* regenerate_failed_reports run next to the executions.  No time passes,  *)
(* so no execution becomes stuck and MonitorFail is never enabled.         *)

MaxBatches == 1

InitFleet == InitSysAt(PendingSeconds + 1)

\* The execution the current worker is in the middle of.
Execution ==
    [pc |-> pc, report |-> report, collected_data |-> collected_data,
     retries |-> retries, delays |-> delays, invoked |-> invoked,
     events |-> events, exc |-> exc, bookkept |-> bookkept]

\* The scheduler turns to the other worker.
Switch ==
    /\ parked' = Execution
    /\ pc' = parked.pc
    /\ report' = parked.report
    /\ collected_data' = parked.collected_data
    /\ retries' = parked.retries
    /\ delays' = parked.delays
    /\ invoked' = parked.invoked
    /\ events' = parked.events
    /\ exc' = parked.exc
    /\ bookkept' = parked.bookkept
    /\ UNCHANGED <<db, website, now, channel, notifications, stage_budget,
                   db_budget, queue, monitor, regen, batches>>
    /\ UNCHANGED peers

\* batch_process_reports, lines 799-819, called with a list naming the report.
BatchProcess ==
    /\ batches < MaxBatches
    /\ batches' = batches + 1
    /\ queue' = queue + 1
    /\ UNCHANGED <<db, website, pc, report, collected_data, retries, delays, now,
                   channel, invoked, events, notifications, exc, bookkept,
                   stage_budget, db_budget, parked, monitor, regen>>
    /\ UNCHANGED peers

\* regenerate_failed_reports, lines 826-829: the failed query is evaluated
\* when the loop starts.
RegenerateScan ==
    /\ regen.pc = "idle"
    /\ regen' = IF db.exists /\ db.status = "failed"
                THEN [pc |-> "reset", copy |-> db]
                ELSE [pc |-> "done", copy |-> NoRecord]
    /\ UNCHANGED <<db, website, pc, report, collected_data, retries, delays, now,
                   channel, invoked, events, notifications, exc, bookkept,
                   stage_budget, db_budget, queue, parked, monitor, batches>>
    /\ UNCHANGED peers

\* Lines 831-833: the fields the loop resets on the instance it holds.
ResetFields(r) ==
    [r EXCEPT !.status = "pending", !.error_messages = <<>>,
              !.processing_steps = <<>>]

\* Lines 829-837: the instance is reset and saved, and the task submitted.
\* A database error ends the invocation in its except block.
RegenerateReset ==
    /\ regen.pc = "reset"
    /\ regen' = [pc |-> "done", copy |-> NoRecord]
    /\ \E ok \in SaveOutcomes :
          /\ DbFault(ok)
          /\ db' = IF ok THEN SaveFields(ResetFields(regen.copy), now) ELSE db
          /\ queue' = IF ok THEN queue + 1 ELSE queue
    /\ UNCHANGED <<website, pc, report, collected_data, retries, delays, now,
                   channel, invoked, events, notifications, exc, bookkept,
                   stage_budget, parked, monitor, batches>>
    /\ UNCHANGED peers

FleetNext ==
    \/ Next
    \/ Deliver
    \/ Switch
    \/ BatchProcess
    \/ RegenerateScan
    \/ RegenerateReset
    \/ MonitorScan(1)
    \/ MonitorRestart(1)

FleetSpec == InitFleet /\ [][FleetNext]_vars

-----------------------------------------------------------------------------
(* Report.save on its own: SaveSpec saves Report instances whose status,    *)
(* timestamps and stored processing time are drawn from bounded sets.       *)

Statuses == {"pending", "processing", "completed", "failed", "cancelled"}

Timestamps == {None} \cup {Some(t) : t \in 0..MaxTime}

\* Report instances about to be saved.
Instances ==
    { [NewReport(req) EXCEPT !.status = st,
                             !.completed_at = c,
                             !.processing_started_at = p,
                             !.processing_time_seconds = d] :
         req \in Requests, st \in Statuses, c \in Timestamps, p \in Timestamps,
         d \in Timestamps }

InitSave ==
    /\ report \in Instances
    /\ db = NoRecord
    /\ website = NewWebsite(CHOOSE req \in Requests : req.requester_email = "")
    /\ pc = "idle"
    /\ collected_data = <<>>
    /\ retries = 0
    /\ delays = <<>>
    /\ now = 0
    /\ channel = "none"
    /\ invoked = <<>>
    /\ events = <<>>
    /\ notifications = 0
    /\ exc = NoExc
    /\ bookkept = FALSE
    /\ stage_budget = 0
    /\ db_budget = 0
    /\ queue = 0
    /\ parked = IdleExecution
    /\ monitor = [i \in Monitors |-> NotStarted]
    /\ regen = NotStarted
    /\ batches = 0
    /\ InitPeers

\* report.save(), models.py 92-102: the instance and the row afterwards.
SaveReport ==
    /\ pc = "idle"
    /\ report.exists
    /\ report' = SaveFields(report, now)
    /\ db' = report'
    /\ UNCHANGED env
    /\ UNCHANGED <<website, pc, collected_data, retries, delays, now, channel,
                   invoked, events, notifications, exc, bookkept, stage_budget,
                   db_budget>>

SaveNext ==
    \/ SaveReport
    \/ PassTime(1, MaxTime)

SaveSpec == InitSave /\ [][SaveNext]_vars

-----------------------------------------------------------------------------
(* Properties *)

FailedSteps(steps) ==
    Cardinality({i \in 1..Len(steps) : steps[i].status = "failed"})

\* The error a failed step entry carries after the stage's message prefix.
ErrorOf(entry) == SubSeq(entry.message, 2, Len(entry.message))

\* The collected_data keys each stage writes, in stage order.
StageKeys ==
    << {"website_data"}, {"seo_data"}, {"social_data"}, {"reputation_data"},
       {"competitor_data"}, {"trust_score", "growth_opportunities"}, {} >>

IsPrefix(s, t) == Len(s) <= Len(t) /\ s = SubSeq(t, 1, Len(s))

\* C1: the stages are invoked once each in the fixed order, and an execution
\* that meets no job-level error has invoked all seven and leaves the record
\* 'completed', whichever stages failed.
C1_AllStagesRunAndCompleted ==
    /\ IsPrefix(invoked, StageNames)
    /\ pc = "completed" =>
          /\ invoked = <<"website_analysis", "seo_analysis", "social_analysis",
                         "reputation_analysis", "competitor_analysis",
                         "ai_analysis", "report_compilation">>
          /\ db.exists
          /\ db.status = "completed"

\* C1 witness: an execution returned 'completed' although all seven stages failed.
C1_Witness ==
    /\ pc = "completed"
    /\ FailedSteps(db.processing_steps) = 7

\* C2: when a stage is about to be invoked collected_data holds the keys of
\* all earlier stages, and a record that reached 'completed' was built from
\* a collected_data holding all seven output keys.
C2_OutputsTotal ==
    /\ \A i \in 1..7 :
          pc = StageNames[i] =>
             \A j \in 1..(i - 1) : StageKeys[j] \subseteq DOMAIN collected_data
    /\ (db.exists /\ db.status = "completed") =>
          DOMAIN collected_data =
             {"website_data", "seo_data", "social_data", "reputation_data",
              "competitor_data", "trust_score", "growth_opportunities"}

\* C2 witness: a completed report whose outputs are all present although
\* three stages fell back.
C2_Witness ==
    /\ db.exists
    /\ db.status = "completed"
    /\ FailedSteps(db.processing_steps) = 3
    /\ Cardinality(DOMAIN collected_data) = 7

\* The step entry of stage i in the task's instance, once the stage has run.
Ran(i) ==
    /\ pc \notin {"queued", "loaded", "init_steps", "not_found"}
    /\ report.exists
    /\ Len(report.processing_steps) = 7
    /\ StageKeys[i] \subseteq DOMAIN collected_data
    /\ report.processing_steps[i].status \in {"completed", "failed"}

Failed(i) == Ran(i) /\ report.processing_steps[i].status = "failed"

Succeeded(i) == Ran(i) /\ report.processing_steps[i].status = "completed"

\* C3: the output of a failed stage is that stage's fallback payload, built
\* from the website's url and domain and the error; the output of a stage
\* that succeeded is the payload its collaborator returned.
C3_FallbackOrReal ==
    LET e(i) == ErrorOf(report.processing_steps[i])
        cd == collected_data
    IN  /\ Failed(1) =>
              cd["website_data"] =
                 [kind |-> "fallback", url |-> website.url, domain |-> website.domain,
                  error |-> e(1), has_ssl |-> website.has_ssl,
                  title |-> <<"Analysis for ", website.domain>>, word_count |-> 0]
        /\ Failed(2) =>
              cd["seo_data"] =
                 [kind |-> "fallback", url |-> website.url, error |-> e(2),
                  page_speed |-> [performance_score |-> 0, seo_score |-> 0],
                  mobile_friendly |-> [mobile_friendly |-> FALSE]]
        /\ Failed(3) =>
              cd["social_data"] =
                 [kind |-> "fallback", domain |-> website.domain, error |-> e(3),
                  platforms |-> <<>>]
        /\ Failed(4) =>
              cd["reputation_data"] =
                 [kind |-> "fallback", domain |-> website.domain, error |-> e(4),
                  overall_rating |-> 0, reviews |-> <<>>]
        /\ Failed(5) =>
              cd["competitor_data"] =
                 [kind |-> "fallback", domain |-> website.domain, error |-> e(5),
                  competitors |-> <<>>, market_position |-> <<>>]
        /\ Failed(6) =>
              /\ cd["trust_score"] =
                    [kind |-> "fallback", overall |-> "5.0", breakdown |-> <<>>,
                     error |-> e(6)]
              /\ cd["growth_opportunities"] = [kind |-> "fallback", items |-> <<>>]
        /\ Succeeded(1) =>
              /\ cd["website_data"].kind = "real"
              /\ cd["website_data"].source = "WebsiteAnalyzer"
        /\ Succeeded(2) =>
              cd["seo_data"] = [kind |-> "real", source |-> "SEODataCollector"]
        /\ Succeeded(3) =>
              cd["social_data"] = [kind |-> "real", source |-> "SocialDataCollector"]
        /\ Succeeded(4) =>
              cd["reputation_data"] = [kind |-> "real", source |-> "ReputationCollector"]
        /\ Succeeded(5) =>
              cd["competitor_data"] = [kind |-> "real", source |-> "CompetitorCollector"]
        /\ Succeeded(6) =>
              /\ cd["trust_score"] = [kind |-> "real", source |-> "TrustScoreCalculator"]
              /\ cd["growth_opportunities"] = [kind |-> "real", source |-> "GrowthAnalyzer"]

\* C3 witness: only social_analysis failed; its output is the fallback and the
\* execution returned 'completed'.
C3_Witness ==
    /\ pc = "completed"
    /\ Failed(3)
    /\ \A i \in {1, 2, 4, 5, 6} : Succeeded(i)
    /\ report.processing_steps[7].status = "completed"
    /\ collected_data["social_data"].kind = "fallback"

\* C4 (as claimed): when an execution returns 'completed', the stored errors
\* list holds one entry per failed stage.
C4_StageFailureLogged ==
    pc = "completed" =>
       Len(db.error_messages) = FailedSteps(report.processing_steps)

\* The outputs are the payloads of the collaborators: no stage fell back.
AllStagesSucceeded ==
    /\ \A i \in 1..6 : Succeeded(i)
    /\ report.processing_steps[7].status = "completed"

\* C5: an execution in which all seven stages succeed and that returns leaves
\* the record 'completed' with no errors, seven real outputs, every step
\* completed at 100 and an overall progress of 100.
C5_AllSucceed ==
    (pc = "completed" /\ AllStagesSucceeded) =>
       /\ db.exists
       /\ db.status = "completed"
       /\ db.error_messages = <<>>
       /\ Cardinality(DOMAIN collected_data) = 7
       /\ \A k \in DOMAIN collected_data : collected_data[k].kind = "real"
       /\ Len(db.processing_steps) = 7
       /\ \A i \in 1..7 :
             /\ db.processing_steps[i].step = StageNames[i]
             /\ db.processing_steps[i].status = "completed"
             /\ db.processing_steps[i].progress = 100
       /\ progress_percentage(db) = 100

\* C5 witness: such an execution, one of whose step saves failed on the way.
C5_Witness ==
    /\ pc = "completed"
    /\ AllStagesSucceeded
    /\ db_budget < MaxDbFaults

Last(q) == q[Len(q)]

\* C6: an execution whose lookup finds no record ends there with the
\* not-found outcome: it has run no stage, published nothing, enqueued
\* nothing, scheduled no retry of its own, and the store still has no record.
C6_NotFound ==
    /\ [](pc = "not_found" =>
             /\ ~db.exists
             /\ invoked = <<>>
             /\ events = <<>>
             /\ notifications = 0
             /\ Len(delays) = retries)
    /\ [][/\ (pc = "queued" /\ ~db.exists /\ pc' # "handler") =>
               (pc' = "not_found" /\ UNCHANGED <<db, delays, events, invoked,
                                                 notifications, retries>>)
          /\ pc # "not_found"]_vars

\* C6 witness: the not-found outcome on a store without the record.
C6_Witness == pc = "not_found" /\ ~db.exists

\* C7: the countdowns handed to retry are 60, 120, 240: the k-th one is
\* 60 * 2^(k-1) and depends on nothing but k.
C7_Backoff ==
    /\ IsPrefix(delays, <<60, 120, 240>>)
    /\ pc = "retry_wait" => Len(delays) = retries + 1

\* C7 witness: three retries have been scheduled.
C7_Witness == delays = <<60, 120, 240>>

\* C8 (as claimed): three attempts at most, so at most two retries are
\* ever scheduled.
C8_ThreeAttempts == retries + 1 <= 3 /\ Len(delays) <= 2

\* C8 (amended): three retries at most, four attempts: a job-level failure
\* of attempt 1, 2 or 3 schedules the next attempt; the job gives up only
\* after the failure of attempt 4, and the record whose failure was then
\* persisted is 'failed'.
C8_FourAttempts ==
    /\ retries <= 3
    /\ Len(delays) <= 3
    /\ pc = "retry_wait" => (retries < 3 /\ Len(delays) = retries + 1)
    /\ pc = "exhausted" =>
          /\ retries = 3
          /\ Len(delays) = 3
          /\ bookkept => (db.exists /\ db.status = "failed")

\* C8 witness: the job gave up after its fourth attempt, record 'failed'.
C8_Witness ==
    /\ pc = "exhausted"
    /\ retries = 3
    /\ bookkept
    /\ db.status = "failed"

C10_FailurePersistedThenRetry ==
    /\ []((pc \in {"retry_logic", "retry_wait", "exhausted"} /\ bookkept) =>
             /\ db.exists
             /\ db.status = "failed"
             /\ db.error_messages # <<>>
             /\ Last(db.error_messages) = exc)
    /\ [][/\ (pc = "handler" /\ db.exists /\ db_budget' = db_budget) =>
               /\ bookkept'
               /\ db'.status = "failed"
               /\ db'.error_messages = Append(db.error_messages, exc)
          /\ (pc = "retry_logic" /\ retries < 3) =>
               /\ pc' = "retry_wait"
               /\ Len(delays') = Len(delays) + 1]_vars

\* C10 witness: a retry is scheduled although the handler could not persist
\* the failure of an existing record.
C10_Witness ==
    /\ pc = "retry_wait"
    /\ db.exists
    /\ ~bookkept
    /\ db.status # "failed"

\* C12 (as claimed): once the stored processing_started_at is set, no later
\* write of the record changes it, a start by a retry included.
C12_StartedAtSetOnce ==
    [][(db.exists /\ db.processing_started_at # None /\ db'.exists) =>
          db'.processing_started_at = db.processing_started_at]_vars

\* C13 (as claimed): every stored record in status 'completed' or 'failed'
\* has completed_at set.
C13_TerminalHasCompletedAt ==
    (db.exists /\ db.status \in {"completed", "failed"}) => db.completed_at # None

\* The progress events of one stage among the published events, in order.
RECURSIVE StagePercents(_, _)
StagePercents(evs, step) ==
    IF evs = <<>>
    THEN <<>>
    ELSE LET rest == StagePercents(Tail(evs), step)
             ev == Head(evs)
         IN  IF ev.type = "report_progress_update"
             THEN IF ev.step = step THEN <<ev.progress>> \o rest ELSE rest
             ELSE rest

\* C18 (as claimed): the percent values published for one stage during an
\* execution never decrease from one event to the next.
C18_StagePercentMonotone ==
    \A k \in 1..NumStages :
       LET ps == StagePercents(events, StageNames[k])
       IN  \A i \in 1..(Len(ps) - 1) : ps[i] <= ps[i + 1]

\* C19: a saved record that has both timestamps stores their difference
\* as its processing time, whatever it stored before; a save of an instance
\* lacking a timestamp leaves the stored processing time as it was; and a
\* save of an instance that was just saved changes nothing.
C19_SaveIdempotent ==
    /\ []((/\ db.exists
           /\ db.completed_at # None
           /\ db.processing_started_at # None) =>
             db.processing_time_seconds =
                <<db.completed_at[1] - db.processing_started_at[1]>>)
    /\ [][/\ (/\ db' # db
              /\ \/ db'.completed_at = None
                 \/ db'.processing_started_at = None) =>
                db'.processing_time_seconds = report.processing_time_seconds
          /\ db = report => (report' = report /\ db' = db)]_vars

\* C19 witness: a record saved with both timestamps whose stored processing
\* time is their difference, a negative one.
C19_Witness ==
    /\ db.exists
    /\ db.completed_at = <<0>>
    /\ db.processing_started_at = <<2>>
    /\ db.processing_time_seconds = <<-2>>

\* Invocation i of the monitor saves the instance it marked failed.
SavesStuck(i) == monitor[i].pc = "fail" /\ monitor'[i].pc = "pending"

\* The stored record has been failed by the monitor and is still so.
TimedOut ==
    /\ db.exists
    /\ db.status = "failed"
    /\ db.error_messages # <<>>
    /\ Last(db.error_messages) = TimeoutError

\* C15 (as claimed): once one invocation of the monitor has failed the stuck
\* record, the save of every other invocation that found it stuck leaves
\* the stored record as it is.
C15_OtherInvocationsNoOp ==
    [][\A i \in Monitors : (TimedOut /\ SavesStuck(i)) => db' = db]_vars

\* C16 (as claimed): a save of the monitor that comes after the execution
\* stored 'completed' leaves the stored record as it is.
C16_CompletedNotOverwritten ==
    [][\A i \in Monitors :
          (db.exists /\ db.status = "completed" /\ SavesStuck(i)) => db' = db]_vars

\* A step of the execution that is in flight.
ExecutionStep == pc \notin FreePcs /\ pc' # pc

\* C20 (as claimed): while the stored status is 'completed', 'failed' or
\* 'cancelled', no step of the execution in flight changes the stored
\* status, stages, outputs or errors.
C20_TerminalNotMutated ==
    [][(/\ db.exists
        /\ db.status \in {"completed", "failed", "cancelled"}
        /\ ExecutionStep) =>
          /\ db'.exists
          /\ db'.status = db.status
          /\ db'.processing_steps = db.processing_steps
          /\ db'.error_messages = db.error_messages
          /\ \A f \in {"executive_summary", "seo_data", "social_data",
                        "reputation_data", "competitor_data", "trust_score",
                        "growth_opportunities", "technical_analysis"} :
                db'[f] = db[f]]_vars

\* C11 (as claimed): the steps of an execution that loaded a 'completed'
\* record, the other worker executing nothing, leave the stored record as
\* it is and enqueue no notification.
C11_RerunOfCompletedNoOp ==
    [][(/\ pc = "loaded"
        /\ report.status = "completed"
        /\ parked.pc \in FreePcs
        /\ db.exists
        /\ db.status = "completed"
        /\ pc' # pc) =>
          (db' = db /\ notifications' = notifications)]_vars

\* The status changes the claim allows: forward along pending, processing,
\* completed or failed; failed to processing by a retry; and cancellation.
AllowedStatusChanges ==
    { <<"pending", "processing">>, <<"pending", "completed">>,
      <<"pending", "failed">>, <<"processing", "completed">>,
      <<"processing", "failed">>, <<"failed", "processing">>,
      <<"pending", "cancelled">>, <<"processing", "cancelled">> }

\* C14 (as claimed): every change of the stored status is an allowed one.
C14_StatusMovesForward ==
    [][(db.exists /\ db'.exists /\ db'.status # db.status) =>
          <<db.status, db'.status>> \in AllowedStatusChanges]_vars

\* A worker at position p is in the middle of an execution.
Running(p) == p \notin FreePcs \cup {"retry_wait"}

\* C17 (as claimed): the two workers are never both in the middle of an
\* execution for the report.
C17_SingleFlight == ~(Running(pc) /\ Running(parked.pc))

\* The percent each stage publishes with its in_progress event, in stage order.
StartPercent == <<10, 30, 50, 65, 75, 85, 95>>

\* The events of one execution lie in generation order: the status update,
\* then for stage i its in_progress event followed by its completed or failed
\* event, then report_completed and the list topic's report_status_changed.
InGenerationOrder(evs) ==
    /\ Len(evs) <= 2 * NumStages + 3
    /\ \A k \in 1..Len(evs) :
          IF k = 1
          THEN evs[k] = [topic |-> "report", type |-> "report_status_update",
                         status |-> "processing"]
          ELSE IF k <= 2 * NumStages + 1
          THEN LET i == k \div 2
               IN  IF k % 2 = 0
                   THEN evs[k] = [topic |-> "report",
                                  type |-> "report_progress_update",
                                  step |-> StageNames[i], status |-> "in_progress",
                                  progress |-> StartPercent[i]]
                   ELSE evs[k] \in
                           { [topic |-> "report", type |-> "report_progress_update",
                              step |-> StageNames[i], status |-> "completed",
                              progress |-> 100],
                             [topic |-> "report", type |-> "report_progress_update",
                              step |-> StageNames[i], status |-> "failed",
                              progress |-> 0] }
          ELSE IF k = 2 * NumStages + 2
          THEN evs[k] = [topic |-> "report", type |-> "report_completed"]
          ELSE evs[k] = [topic |-> "report_list", type |-> "report_status_changed",
                         old_status |-> "processing", new_status |-> "completed"]

\* The events an execution published before its failure handler ran.
BeforeFailure(evs) ==
    IF evs # <<>> /\ Last(evs).type = "report_failed"
    THEN SubSeq(evs, 1, Len(evs) - 1)
    ELSE evs

-----------------------------------------------------------------------------
(* ChannelSpec: the WebSocket consumers of reports/consumers.py next to the *)
(* group_send calls of reports/tasks.py.  The channel layer hands a message *)
(* to the channels that are in the group when group_send runs; a consumer   *)
(* relays the messages for which it has a handler and stops on a message    *)
(* for which it has none.                                                   *)

\* Messages the model hands to group_send.
MaxSent == 2

\* The variables of the executions.
jobvars == <<db, website, pc, report, collected_data, retries, delays, now,
             channel, invoked, events, notifications, exc, bookkept,
             stage_budget, db_budget>>

\* The id of the stored record.
StoredId == "r1"

GroupOf_IgnoresRoute(consumer, id) == ReportListGroup

\* The group a consumer joins in connect.
GroupOf(consumer, id) ==
    IF consumer = "ReportProgressConsumer" THEN ReportGroup(id) ELSE ReportListGroup

\* The message types a consumer class has a handler method for.
Handlers(consumer) ==
    IF consumer = "ReportProgressConsumer"
    THEN {"report_progress_update", "report_status_update", "report_completed",
          "report_failed"}
    ELSE {"report_created", "report_status_changed"}

\* The 'type' of the frame a handler sends for a message.
FrameType(type) ==
    IF type = "report_progress_update" THEN "progress_update"
    ELSE IF type = "report_status_update" THEN "status_update"
    ELSE type

\* The frame a handler sends for the n-th published message.
Frame(msg, n) ==
    IF msg.type = "report_progress_update"
    THEN [n |-> n, type |-> "progress_update", step |-> msg.step]
    ELSE [n |-> n, type |-> FrameType(msg.type), report_id |-> msg.report_id]

\* The messages the tasks publish for report id: four kinds to the report's
\* group, report_status_changed to the list group.  Of the messages for the
\* other report the model follows one per group.
Published(id) ==
    { [topic |-> ReportGroup(id), type |-> "report_progress_update",
       step |-> "seo_analysis"],
      [topic |-> ReportListGroup, type |-> "report_status_changed",
       report_id |-> id] }
    \cup IF id = StoredId
         THEN { [topic |-> ReportGroup(id), type |-> "report_status_update",
                 report_id |-> id],
                [topic |-> ReportGroup(id), type |-> "report_completed",
                 report_id |-> id],
                [topic |-> ReportGroup(id), type |-> "report_failed",
                 report_id |-> id] }
         ELSE {}

\* connect: group_add, accept.
Connect(c, consumer, id) ==
    /\ conns[c].state = "new"
    /\ conns' = [conns EXCEPT ![c] =
                    [state |-> "open", consumer |-> consumer, report_id |-> id,
                     group |-> GroupOf(consumer, id), joined |-> Len(sent),
                     queried |-> FALSE]]
    /\ groups' = [groups EXCEPT ![GroupOf(consumer, id)] = @ \cup {c}]
    /\ UNCHANGED <<jobvars, queue, parked, monitor, regen, batches, sent,
                   delivered, destroy, cleanup>>

\* disconnect: group_discard.
Disconnect(c) ==
    /\ conns[c].state = "open"
    /\ conns' = [conns EXCEPT ![c].state = "closed"]
    /\ groups' = [groups EXCEPT ![conns[c].group] = @ \ {c}]
    /\ UNCHANGED <<jobvars, queue, parked, monitor, regen, batches, sent,
                   delivered, destroy, cleanup>>

\* channel_layer.group_send(topic, message): every channel in the group gets
\* the message; its consumer dispatches on the message type.
GroupSend(msg) ==
    /\ Len(sent) < MaxSent
    /\ sent' = Append(sent, msg)
    /\ LET got == {c \in groups[msg.topic] : conns[c].state = "open"}
           handled == {c \in got : msg.type \in Handlers(conns[c].consumer)}
       IN  /\ delivered' = [c \in Connections |->
                               IF c \in handled
                               THEN Append(delivered[c], Frame(msg, Len(sent) + 1))
                               ELSE delivered[c]]
           /\ conns' = [c \in Connections |->
                           IF c \in got \ handled
                           THEN [conns[c] EXCEPT !.state = "stopped"]
                           ELSE conns[c]]
    /\ UNCHANGED <<jobvars, queue, parked, monitor, regen, batches, groups,
                   destroy, cleanup>>

\* receive of a get_status frame: the stored record's state is sent back, if
\* the record of the connection's report id exists.  The model follows the
\* first query of a connection.
GetStatus(c) ==
    /\ conns[c].state = "open"
    /\ conns[c].consumer = "ReportProgressConsumer"
    /\ ~conns[c].queried
    /\ conns' = [conns EXCEPT ![c].queried = TRUE]
    /\ delivered' = [delivered EXCEPT ![c] =
                        IF conns[c].report_id = StoredId /\ db.exists
                        THEN Append(@, [n |-> 0, type |-> "status_update",
                                        report_id |-> StoredId,
                                        status |-> db.status,
                                        progress_percentage |-> progress_percentage(db),
                                        processing_steps |-> db.processing_steps,
                                        error_messages |-> db.error_messages])
                        ELSE @]
    /\ UNCHANGED <<jobvars, queue, parked, monitor, regen, batches, groups, sent,
                   destroy, cleanup>>

ChannelNext ==
    \/ \E c \in Connections, id \in RouteIds :
          Connect(c, "ReportProgressConsumer", id)
    \/ \E c \in Connections : Connect(c, "ReportListConsumer", "list")
    \/ \E c \in Connections : Disconnect(c)
    \/ \E id \in ReportIds : \E msg \in Published(id) : GroupSend(msg)
    \/ \E c \in Connections : GetStatus(c)

ChannelSpec == InitSys /\ [][ChannelNext]_vars

\* The published messages a connection is to relay: those published to its
\* topic after it connected and, for a connection that is no longer open,
\* not after the frames it got.
Due(c) ==
    LET cn == conns[c]
        topic == IF cn.consumer = "ReportProgressConsumer"
                 THEN <<"report_", cn.report_id>>
                 ELSE <<"report_", "list">>
    IN  {n \in (cn.joined + 1)..Len(sent) : sent[n].topic = topic}

\* C22: a consumer relays the messages published to its own topic while it
\* is connected, each once and in order, and nothing else but the answers to
\* its own get_status queries: events of report_{id} reach exactly the
\* progress consumers connected for that id when they are published, never
\* those of another id, never the list consumers and never a consumer that
\* connects later; report_status_changed reaches list consumers only.
C22_RelayedToSubscribersOnly ==
    \A c \in Connections :
       LET cn == conns[c]
           got == delivered[c]
       IN  /\ \A k \in 1..Len(got) :
                 \/ /\ got[k].n = 0
                    /\ got[k].type = "status_update"
                    /\ cn.consumer = "ReportProgressConsumer"
                    /\ cn.report_id = got[k].report_id
                 \/ /\ got[k].n \in Due(c)
                    /\ \A j \in 1..(k - 1) : got[j].n < got[k].n
                    /\ IF sent[got[k].n].type = "report_status_changed"
                       THEN /\ cn.consumer = "ReportListConsumer"
                            /\ got[k].type = "report_status_changed"
                       ELSE /\ cn.consumer = "ReportProgressConsumer"
                            /\ cn.report_id \in ReportIds
                            /\ sent[got[k].n].topic = <<"report_", cn.report_id>>
                            /\ got[k].type \in {"progress_update", "status_update",
                                                "report_completed", "report_failed"}
           /\ (cn.state = "open") =>
                 \A n \in Due(c) : \E k \in 1..Len(got) : got[k].n = n

\* C22 witness: a, connected for r1, got the event published for r1 and not
\* the list event; b, a list consumer that connected later, got only the
\* list event.
C22_Witness ==
    /\ Len(sent) = 2
    /\ sent[1].topic = <<"report_", "r1">>
    /\ sent[2].type = "report_status_changed"
    /\ conns["a"].state = "open"
    /\ conns["a"].consumer = "ReportProgressConsumer"
    /\ conns["a"].report_id = "r1"
    /\ conns["a"].joined = 0
    /\ Len(delivered["a"]) = 1
    /\ conns["b"].state = "open"
    /\ conns["b"].consumer = "ReportListConsumer"
    /\ conns["b"].joined = 1
    /\ Len(delivered["b"]) = 1
    /\ delivered["b"][1].n = 2

\* C23 (as claimed): the stored error_messages list only grows: every write
\* of the record keeps the entries stored before it, in order.
C23_ErrorsAppendOnly ==
    [][(db.exists /\ db'.exists) =>
          IsPrefix(db.error_messages, db'.error_messages)]_vars

\* C24 (as claimed): once the stored processing_steps list has been created,
\* every write of the record leaves it holding the seven stage names in
\* order, and the start of a later attempt leaves the list as it is.
C24_StepsCreatedOnce ==
    [][(db.exists /\ db'.exists /\ db.processing_steps # <<>>) =>
          /\ Len(db'.processing_steps) = NumStages
          /\ \A i \in 1..NumStages : db'.processing_steps[i].step = StageNames[i]
          /\ pc = "init_steps" => db'.processing_steps = db.processing_steps]_vars

\* C25 (as claimed): a channel layer failure during a publish never changes
\* what the execution does to the record: no execution has its record
\* marked 'failed', or a retry scheduled, for an error of the channel layer
\* (stated for the executions that met no database fault).
C25_PublishFireAndForget ==
    (exc = ChannelError /\ db_budget = MaxDbFaults) =>
       /\ ~(db.exists /\ db.status = "failed")
       /\ pc # "retry_wait"

\* C26 (as claimed): once stage i has run, the stored record holds the
\* stage's progress entry (completed at 100 or failed at 0) and, in the
\* stage's output fields, the values the execution is using for them, the
\* payload or the fallback (stated for the stages that have output fields on
\* the record, and for the executions that met no database fault).
C26_StageOutputsPersisted ==
    db_budget = MaxDbFaults =>
       \A i \in 2..6 :
          Ran(i) =>
             /\ db.exists
             /\ db.processing_steps[i].status = report.processing_steps[i].status
             /\ db.processing_steps[i].progress =
                   IF db.processing_steps[i].status = "completed" THEN 100 ELSE 0
             /\ \A k \in StageKeys[i] : db[k] = collected_data[k]

-----------------------------------------------------------------------------
(* LiveSpec: the job from its submission to the end, with one worker that   *)
(* is scheduled fairly, passing time, and the monitor running again and     *)
(* again.  The record is pending with its task message in the broker, or    *)
(* pending with the message lost, or was left 'processing' by a worker      *)
(* that was killed after the stages list had been stored.  The broker may   *)
(* refuse the e-mail task of any attempt.                                   *)

\* Messages waiting in the broker beyond which no further run of the monitor
\* is started.
MaxQueue == 2

\* The record a killed worker left behind: processing since time 0.
Abandoned(r) ==
    [r EXCEPT !.status = "processing", !.processing_started_at = Some(0),
              !.processing_steps = InitialSteps]

InitLive ==
    /\ LET req == CHOOSE q \in Requests : q.requester_email # ""
       IN  /\ website = NewWebsite(req)
           /\ \/ db = NewReport(req) /\ queue \in {0, 1}
              \/ db = Abandoned(NewReport(req)) /\ queue = 0
    /\ pc = "idle"
    /\ report = NoRecord
    /\ collected_data = <<>>
    /\ retries = 0
    /\ delays = <<>>
    /\ now = 0
    /\ channel = "none"
    /\ invoked = <<>>
    /\ events = <<>>
    /\ notifications = 0
    /\ exc = NoExc
    /\ bookkept = FALSE
    /\ stage_budget = 0
    /\ db_budget = 0
    /\ parked = IdleExecution
    /\ monitor = [i \in Monitors |-> NotStarted]
    /\ regen = NotStarted
    /\ batches = 0
    /\ InitPeers

\* Time passes.  The model follows the passing of time between executions
\* (an execution is short next to the thresholds of the monitor) and while a
\* query of the monitor waits for it: while the record is 'processing' and
\* not yet stuck, or 'pending' and not yet old.
Elapse ==
    /\ pc \in FreePcs
    /\ db.exists
    /\ \/ db.status = "processing" /\ ~IsStuck(db, now)
       \/ db.status = "pending" /\ ~IsOldPending(db, now)
    /\ now' = now + TickSeconds
    /\ UNCHANGED env
    /\ UNCHANGED <<db, website, pc, report, collected_data, retries, delays,
                   channel, invoked, events, notifications, exc, bookkept,
                   stage_budget, db_budget>>

\* The scheduler starts the next periodic run of monitor_report_processing.
MonitorBeat ==
    /\ monitor[1].pc = "done"
    /\ queue < MaxQueue
    /\ monitor' = [monitor EXCEPT ![1] = NotStarted]
    /\ UNCHANGED <<jobvars, queue, parked, regen, batches, peers>>

\* The steps of the worker and the steps of the monitor.
WorkerStep == Next \/ RetryDeliver \/ Deliver

MonitorStep ==
    MonitorScan(1) \/ MonitorFail(1) \/ MonitorRestart(1) \/ MonitorBeat

LiveNext ==
    \/ Next
    \/ RetryDeliver
    \/ Deliver
    \/ Elapse
    \/ MonitorScan(1)
    \/ MonitorFail(1)
    \/ MonitorRestart(1)
    \/ MonitorBeat

LiveSpec ==
    /\ InitLive
    /\ [][LiveNext]_vars
    /\ WF_vars(WorkerStep)
    /\ WF_vars(MonitorStep)
    /\ WF_vars(Elapse)

\* Nothing is executing or waiting, and the record is completed or failed.
Settled ==
    /\ pc \in FreePcs
    /\ queue = 0
    /\ db.exists
    /\ db.status \in {"completed", "failed"}

\* C27: with a fairly scheduled worker, a periodic monitor and passing time,
\* every job stops after at most four attempts and the record comes to rest
\* in 'completed' or 'failed'; a record in 'processing' does not stay so
\* (the monitor fails the one an ended job left behind), and a record in
\* 'pending' does not stay so (the monitor submits it again and it is
\* processed).
C27_EventuallySettled ==
    /\ [](retries <= max_retries)
    /\ <>[]Settled
    /\ (db.status = "processing") ~> (db.status \in {"completed", "failed"})
    /\ (db.status = "pending") ~> (db.status # "pending")

\* C27 witness: the record a killed worker left 'processing' has been failed
\* by the monitor, and nothing is executing or waiting.
C27_Witness ==
    /\ Settled
    /\ db.status = "failed"
    /\ db.error_messages = <<TimeoutError>>
    /\ now > StuckSeconds

-----------------------------------------------------------------------------
(* DeleteSpec: one worker next to a ReportDeleteView.destroy request for    *)
(* the report and an invocation of cleanup_old_reports.  The report is new, *)
(* or older than the retention period with its task submitted again.        *)

\* cleanup_old_reports: timedelta(days=90), in seconds.
RetentionSeconds == 7776000

InitDelete == InitSysAt(0) \/ InitSysAt(RetentionSeconds + 1)

\* destroy, line 114: get_object finds the record or answers 404.
DestroyGet ==
    /\ destroy.pc = "idle"
    /\ destroy' = IF ~db.exists
                  THEN [pc |-> "done", copy |-> NoRecord]
                  ELSE IF db.status \in {"pending", "processing"}
                  THEN [pc |-> "cancel", copy |-> db]
                  ELSE [pc |-> "delete", copy |-> db]
    /\ UNCHANGED <<jobvars, queue, parked, monitor, regen, batches, groups, conns,
                   sent, delivered, cleanup>>

\* Lines 117-120: the fields set on the instance before it is saved.
CancelledFields(r) == [r EXCEPT !.status = "cancelled"]

\* Lines 117-120: a pending or processing report is saved as 'cancelled'.
DestroyCancel ==
    /\ destroy.pc = "cancel"
    /\ db' = SaveFields(CancelledFields(destroy.copy), now)
    /\ destroy' = [destroy EXCEPT !.pc = "delete"]
    /\ UNCHANGED <<website, pc, report, collected_data, retries, delays, now,
                   channel, invoked, events, notifications, exc, bookkept,
                   stage_budget, db_budget, queue, parked, monitor, regen,
                   batches, groups, conns, sent, delivered, cleanup>>

\* Line 123: report.delete().
DestroyDelete ==
    /\ destroy.pc = "delete"
    /\ db' = NoRecord
    /\ destroy' = [pc |-> "done", copy |-> NoRecord]
    /\ UNCHANGED <<website, pc, report, collected_data, retries, delays, now,
                   channel, invoked, events, notifications, exc, bookkept,
                   stage_budget, db_budget, queue, parked, monitor, regen,
                   batches, groups, conns, sent, delivered, cleanup>>

\* cleanup_old_reports, lines 490-491: the query for reports older than the
\* retention period is evaluated when the loop starts.
CleanupScan ==
    /\ cleanup.pc = "idle"
    /\ cleanup' = IF db.exists /\ db.created_at < now - RetentionSeconds
                  THEN [pc |-> "delete", copy |-> db]
                  ELSE [pc |-> "done", copy |-> NoRecord]
    /\ UNCHANGED <<jobvars, queue, parked, monitor, regen, batches, groups, conns,
                   sent, delivered, destroy>>

\* Lines 494-497: report.delete() in the loop.
CleanupDelete ==
    /\ cleanup.pc = "delete"
    /\ db' = NoRecord
    /\ cleanup' = [pc |-> "done", copy |-> NoRecord]
    /\ UNCHANGED <<website, pc, report, collected_data, retries, delays, now,
                   channel, invoked, events, notifications, exc, bookkept,
                   stage_budget, db_budget, queue, parked, monitor, regen,
                   batches, groups, conns, sent, delivered, destroy>>

DeleteNext ==
    \/ Next
    \/ Deliver
    \/ DestroyGet
    \/ DestroyCancel
    \/ DestroyDelete
    \/ CleanupScan
    \/ CleanupDelete

DeleteSpec == InitDelete /\ [][DeleteNext]_vars

\* C28 (as claimed): once the record has been deleted, no step of the
\* execution in flight brings it back.
C28_DeletedStaysDeleted ==
    [][(~db.exists /\ ExecutionStep) => ~db'.exists]_vars

\* The execution has published report_failed.
PublishedFailure == \E k \in 1..Len(events) : events[k].type = "report_failed"

\* C29 (as claimed): report_failed is published only by an execution after
\* which no retry runs: no execution that published it schedules a retry.
C29_FailedIsTerminal == PublishedFailure => pc # "retry_wait"

\* C30 (as claimed): a stored record that has both timestamps has
\* completed_at at or after processing_started_at and a stored processing
\* time that is not negative.
C30_TimesOrdered ==
    (/\ db.exists
     /\ db.completed_at # None
     /\ db.processing_started_at # None) =>
       /\ db.completed_at[1] >= db.processing_started_at[1]
       /\ db.processing_time_seconds # None =>
             db.processing_time_seconds[1] >= 0

====
